---- MODULE Spec2Model ----
(***************************************************************************)
(* Model of the Splunk client of pkg/splunk (src/unnamed/part_000):        *)
(* NewClient, Search, SendEvents, setAuthHeader and                        *)
(* parseSplunkSearchResults.                                               *)
(*                                                                         *)
(* Go strings that the code splits, joins, trims or searches (the query,  *)
(* the option strings, the base URL, the request body) are sequences of    *)
(* one-character strings.  Strings the code only compares with "" and      *)
(* copies (credentials, index name, status text) are TLA+ strings.         *)
(***************************************************************************)
EXTENDS Integers, Sequences, FiniteSets, TLC

\* ------------------------------------------------------------------ bounds

\* Longest option list passed to Search.
MaxOpts == 2
\* Longest event list passed to SendEvents.
MaxEvents == 3

\* ----------------------------------------------------------- string helpers

\* strings.Index(s, c) for a one-character c, 1-based; 0 when c is absent.
IndexOf(s, c) ==
    IF \E i \in 1..Len(s) : s[i] = c
    THEN CHOOSE i \in 1..Len(s) : s[i] = c /\ \A j \in 1..(i - 1) : s[j] # c
    ELSE 0

\* strings.Contains(s, sub).
Contains(s, sub) ==
    \E i \in 0..(Len(s) - Len(sub)) : SubSeq(s, i + 1, i + Len(sub)) = sub

\* strings.Join(parts, "&").
RECURSIVE JoinAmp(_)
JoinAmp(parts) ==
    IF Len(parts) = 0 THEN <<>>
    ELSE IF Len(parts) = 1 THEN parts[1]
    ELSE parts[1] \o <<"&">> \o JoinAmp(Tail(parts))

\* A plausible slip: strings.TrimSuffix, which removes one '/' only.
TrimSuffixSlash(s) ==
    IF Len(s) > 0 /\ s[Len(s)] = "/" THEN SubSeq(s, 1, Len(s) - 1) ELSE s

\* strings.TrimRight(s, "/"): every trailing '/' is removed.
RECURSIVE TrimRightSlash(_)
TrimRightSlash(s) ==
    IF Len(s) > 0 /\ s[Len(s)] = "/"
    THEN TrimRightSlash(SubSeq(s, 1, Len(s) - 1))
    ELSE s

\* strings.SplitN(opt, "=", 2): one part when opt has no '=', else the text
\* before the first '=' and the text after it.
SplitN2(opt) ==
    LET k == IndexOf(opt, "=")
    IN  IF k = 0 THEN <<opt>>
        ELSE <<SubSeq(opt, 1, k - 1), SubSeq(opt, k + 1, Len(opt))>>

\* ------------------------------------------------------------- literals

KeySearch       == <<"s","e","a","r","c","h">>
KeyExecMode     == <<"e","x","e","c","_","m","o","d","e">>
KeyOutputMode   == <<"o","u","t","p","u","t","_","m","o","d","e">>
KeyEarliestTime == <<"e","a","r","l","i","e","s","t","_","t","i","m","e">>
KeyLatestTime   == <<"l","a","t","e","s","t","_","t","i","m","e">>
ValNormal       == <<"n","o","r","m","a","l">>
ValJson         == <<"j","s","o","n">>
ValBlocking     == <<"b","l","o","c","k","i","n","g">>

\* fmt.Sprintf("%s=%s", key, value).
KV(key, value) == key \o <<"=">> \o value

SearchPath == <<"/","s","e","r","v","i","c","e","s","/","s","e","a","r","c","h","/","j","o","b","s">>
HecPath    == <<"/","s","e","r","v","i","c","e","s","/","c","o","l","l","e","c","t","o","r","/","e","v","e","n","t">>

\* An ASCII control character: url.Parse, and so http.NewRequest, rejects a
\* URL that holds one.
CTL == "<DEL>"


\* url.Parse(rawURL) succeeds: the URL holds no control character.
URLParses(rawURL) == \A i \in 1..Len(rawURL) : rawURL[i] # CTL

\* ------------------------------------------------------------------ inputs

BaseURLs  == { <<"h">>, <<"h","/">>, <<"h","/","/">>, <<"h",CTL>> }
Usernames == { "", "user" }
Passwords == { "", "pass" }
Tokens    == { "", "tok" }

\* ------------------------------------------------------------------- state

VARIABLES
    procs,    \* the callers of the client; fixed by Init
    origin,   \* how the client was built: "none", "NewClient" or "literal"
    args,     \* the four strings handed to the construction
    client,   \* the Client (BaseURL, Username, Password, Token) or NoClient
    newErr,   \* the error NewClient returned
    frame     \* per caller: the call in progress or the last call's outcome

vars == <<procs, origin, args, client, newErr, frame>>

\* error values: kind names the return statement, msg the formatted text.
NoErr == [kind |-> "nil", msg |-> <<>>]
Err(kind, msg) == [kind |-> kind, msg |-> msg]

\* the nil *Client
NoClient == [nil |-> TRUE]
NoArgs   == [nil |-> TRUE]

\* --------------------------------------------------------------- NewClient

\* A plausible slip: the credential test requires all three to be empty.
NewClientAllEmpty(baseURL, username, password, token) ==
    IF token = "" /\ (username = "" /\ password = "")
    THEN [client |-> NoClient,
          err |-> Err("config", <<"either a token or a username and password must be provided">>)]
    ELSE [client |-> [BaseURL |-> baseURL, Username |-> username,
                      Password |-> "", Token |-> token],
          err |-> NoErr]

\* NewClient(baseURL, username, password, token): the composite literal sets
\* BaseURL, Username, Token and HTTPClient; Password keeps its zero value "".
NewClient(baseURL, username, password, token) ==
    IF token = "" /\ (username = "" \/ password = "")
    THEN [client |-> NoClient,
          err |-> Err("config", <<"either a token or a username and password must be provided">>)]
    ELSE [client |-> [BaseURL |-> baseURL, Username |-> username,
                      Password |-> "", Token |-> token],
          err |-> NoErr]

\* ----------------------------------------------------------- setAuthHeader

NoAuth == [scheme |-> "none", cred |-> <<>>]

\* A plausible slip: basic authentication is tried before the token.
setAuthHeaderBasicFirst(c, req) ==
    IF c.Username # "" /\ c.Password # ""
    THEN [req |-> [req EXCEPT !.auth = [scheme |-> "Basic",
                                        cred |-> <<c.Username, c.Password>>]],
          err |-> NoErr]
    ELSE IF c.Token # ""
    THEN [req |-> [req EXCEPT !.auth = [scheme |-> "Bearer", cred |-> <<c.Token>>]],
          err |-> NoErr]
    ELSE [req |-> req,
          err |-> Err("auth", <<"no authentication credentials provided">>)]

\* A plausible slip: a username alone is taken for a credential pair.
setAuthHeaderUserOnly(c, req) ==
    IF c.Token # ""
    THEN [req |-> [req EXCEPT !.auth = [scheme |-> "Bearer", cred |-> <<c.Token>>]],
          err |-> NoErr]
    ELSE IF c.Username # ""
    THEN [req |-> [req EXCEPT !.auth = [scheme |-> "Basic",
                                        cred |-> <<c.Username, c.Password>>]],
          err |-> NoErr]
    ELSE [req |-> req,
          err |-> Err("auth", <<"no authentication credentials provided">>)]

\* (c *Client) setAuthHeader(req): Authorization "Bearer "+Token when the
\* token is set, else basic authentication (Authorization "Basic "+
\* base64(Username:Password)) when both are set, else an error.
setAuthHeader(c, req) ==
    IF c.Token # ""
    THEN [req |-> [req EXCEPT !.auth = [scheme |-> "Bearer", cred |-> <<c.Token>>]],
          err |-> NoErr]
    ELSE IF c.Username # "" /\ c.Password # ""
    THEN [req |-> [req EXCEPT !.auth = [scheme |-> "Basic",
                                        cred |-> <<c.Username, c.Password>>]],
          err |-> NoErr]
    ELSE [req |-> req,
          err |-> Err("auth", <<"no authentication credentials provided">>)]

\* http.NewRequest("POST", url, body): the request, before any header is set;
\* it fails when the URL does not parse.
NewRequest(url, body) ==
    IF URLParses(url)
    THEN [req |-> [method |-> "POST", url |-> url, contentType |-> "",
                   auth |-> NoAuth, body |-> body,
                   ev |-> 0],    \* history: the event a SendEvents request is for
          err |-> NoErr]
    ELSE [req |-> [nil |-> TRUE], err |-> Err("newrequest", <<"parse: invalid URL">>)]

\* ------------------------------------------------------- Search: the request

\* the three locals of Search the option loop assigns
DefaultOpts == [execMode |-> ValNormal, earliestTime |-> <<>>, latestTime |-> <<>>]

\* A plausible slip: the first occurrence of a key wins and an option with no
\* '=' is taken as an exec_mode.
ApplyOptionFirstWins(st, opt) ==
    LET parts == SplitN2(opt)
    IN  IF Len(parts) # 2 THEN [st EXCEPT !.execMode = opt]
        ELSE IF parts[1] = KeyExecMode /\ st.execMode = ValNormal
             THEN [st EXCEPT !.execMode = parts[2]]
        ELSE IF parts[1] = KeyEarliestTime /\ st.earliestTime = <<>>
             THEN [st EXCEPT !.earliestTime = parts[2]]
        ELSE IF parts[1] = KeyLatestTime /\ st.latestTime = <<>>
             THEN [st EXCEPT !.latestTime = parts[2]]
        ELSE st

\* one pass of the option loop: split at the first '=', skip an option with
\* no '=', assign the local the key names, ignore any other key.
ApplyOption(st, opt) ==
    LET parts == SplitN2(opt)
    IN  IF Len(parts) # 2 THEN st
        ELSE IF parts[1] = KeyExecMode     THEN [st EXCEPT !.execMode = parts[2]]
        ELSE IF parts[1] = KeyEarliestTime THEN [st EXCEPT !.earliestTime = parts[2]]
        ELSE IF parts[1] = KeyLatestTime   THEN [st EXCEPT !.latestTime = parts[2]]
        ELSE st

\* the option loop, in list order
RECURSIVE ParseOptions(_, _)
ParseOptions(st, options) ==
    IF Len(options) = 0 THEN st
    ELSE ParseOptions(ApplyOption(st, Head(options)), Tail(options))

\* A plausible slip: exec_mode is fixed (the older prepareHttpRequest) and
\* the time bounds are always written.
SearchBodyFixed(query, options) ==
    LET st == ParseOptions(DefaultOpts, options)
    IN  JoinAmp(<<KV(KeySearch, query),
                  KV(KeyExecMode, <<"o","n","e","s","h","o","t">>),
                  KV(KeyOutputMode, ValJson),
                  KV(KeyEarliestTime, st.earliestTime),
                  KV(KeyLatestTime, st.latestTime)>>)

\* reqBody of Search: the params joined by '&', the time bounds only when
\* their local is not "".
SearchBody(query, options) ==
    LET st == ParseOptions(DefaultOpts, options)
        base == <<KV(KeySearch, query), KV(KeyExecMode, st.execMode),
                  KV(KeyOutputMode, ValJson)>>
        withEarliest == IF st.earliestTime # <<>>
                        THEN Append(base, KV(KeyEarliestTime, st.earliestTime))
                        ELSE base
        withLatest == IF st.latestTime # <<>>
                      THEN Append(withEarliest, KV(KeyLatestTime, st.latestTime))
                      ELSE withEarliest
    IN  JoinAmp(withLatest)

\* searchURL of Search: BaseURL with the path appended, nothing trimmed.
SearchURL(c) == c.BaseURL \o SearchPath

\* ------------------------------------------------------------ the transport

\* http.StatusOK
StatusOK == 200

\* response bodies: two JSON objects, the JSON value null, a JSON array,
\* text that is no JSON, a truncated object and the empty body
ObjectBodies == { "{}", "{\"results\":[]}" }
\* a body that holds more than one JSON value: an object, then other text
TrailedBodies == { "{\"results\":[]} trailing" }
Bodies ==
    ObjectBodies \cup TrailedBodies
        \cup { "null", "[1]", "not json", "{\"results\":", "" }

Responses ==
    { [StatusCode |-> 200, Status |-> "200 OK", Body |-> b] : b \in Bodies }
    \cup { [StatusCode |-> 201, Status |-> "201 Created", Body |-> "{}"],
           [StatusCode |-> 400, Status |-> "400 Bad Request", Body |-> "bad request"],
           [StatusCode |-> 503, Status |-> "503 Service Unavailable", Body |-> ""] }

\* what HTTPClient.Do returns: an error, or a response and no error
Outcomes ==
    { [neterr |-> TRUE, resp |-> [StatusCode |-> 0, Status |-> "", Body |-> ""]] }
    \cup { [neterr |-> FALSE, resp |-> r] : r \in Responses }

\* ------------------------------------------------- parseSplunkSearchResults

\* a map[string]any: nil, or the object decoded from a body
NilMap == [nil |-> TRUE, obj |-> ""]
MapOf(body) == [nil |-> FALSE, obj |-> body]

\* the first JSON value of a body that starts with a complete one: Decode
\* reads one value from the stream and leaves what follows it unread
FirstJSONValue(body) ==
    IF body = "{\"results\":[]} trailing" THEN "{\"results\":[]}" ELSE body

\* A plausible slip: an empty body (io.EOF) taken for an empty result.
parseSplunkSearchResultsEOFIsEmpty(body) ==
    IF FirstJSONValue(body) \in ObjectBodies
    THEN [result |-> MapOf(FirstJSONValue(body)), err |-> NoErr]
    ELSE IF body = "null" \/ body = "" THEN [result |-> NilMap, err |-> NoErr]
    ELSE IF body = "[1]"
         THEN [result |-> NilMap,
               err |-> Err("decode", <<"json: cannot unmarshal array into Go value">>)]
    ELSE [result |-> NilMap, err |-> Err("decode", <<"invalid character">>)]

\* json.NewDecoder(body).Decode(&result) into a map[string]any: the first
\* JSON value of the body is decoded; an object fills the map, the value null
\* leaves it nil without error, any other JSON value is a type error, and a
\* body that does not start with a complete value is a syntax error or
\* io.EOF.
parseSplunkSearchResults(body) ==
    IF FirstJSONValue(body) \in ObjectBodies
    THEN [result |-> MapOf(FirstJSONValue(body)), err |-> NoErr]
    ELSE IF body = "null" THEN [result |-> NilMap, err |-> NoErr]
    ELSE IF body = "[1]"
         THEN [result |-> NilMap,
               err |-> Err("decode", <<"json: cannot unmarshal array into Go value">>)]
    ELSE IF body = ""
         THEN [result |-> NilMap, err |-> Err("decode", <<"EOF">>)]
    ELSE [result |-> NilMap, err |-> Err("decode", <<"invalid character">>)]

\* ------------------------------------------------------------- call frames

\* resp.StatusCode and resp.Status of a response
StatusOf(resp) == [StatusCode |-> resp.StatusCode, Status |-> resp.Status]

IdleFrame ==
    [pc |-> "idle", op |-> "none",
     query |-> <<>>, options |-> <<>>,      \* the arguments of Search
     indexName |-> "", events |-> <<>>,     \* the arguments of SendEvents
     i |-> 0,                               \* the event the loop is at
     sent |-> <<>>,                         \* requests handed to HTTPClient.Do
     resps |-> <<>>,                        \* status of each response received
     bodies |-> <<>>,                       \* per response body: times closed
     parsed |-> <<>>,                       \* bodies handed to the JSON parser
     result |-> NilMap, err |-> NoErr]      \* what the call returned

\* a return statement: the deferred resp.Body.Close() calls run, one per
\* response received, then the caller has the results.
Return(f, result, err) ==
    [f EXCEPT !.pc = "returned", !.result = result, !.err = err,
              !.bodies = [k \in DOMAIN f.bodies |-> f.bodies[k] + 1]]

\* ------------------------------------------------------------------ Search

\* Search up to HTTPClient.Do: the body, the request, the Content-Type, the
\* authorization; an error of NewRequest or setAuthHeader returns at once.
SearchStart(c, query, options) ==
    LET f0 == [IdleFrame EXCEPT !.op = "Search", !.query = query, !.options = options]
        nr == NewRequest(SearchURL(c), SearchBody(query, options))
    IN  IF nr.err # NoErr THEN Return(f0, NilMap, nr.err)
        ELSE LET req == [nr.req EXCEPT !.contentType = "application/x-www-form-urlencoded"]
                 a == setAuthHeader(c, req)
             IN  IF a.err # NoErr THEN Return(f0, NilMap, a.err)
                 ELSE [f0 EXCEPT !.pc = "search_wait", !.sent = <<a.req>>]

\* A plausible slip: the body is decoded before the status is looked at.
SearchFinishParseFirst(f, out) ==
    IF out.neterr
    THEN Return(f, NilMap, Err("transport", <<"Post: ", "network error">>))
    ELSE LET f1 == [f EXCEPT !.bodies = Append(@, 0), !.resps = Append(@, StatusOf(out.resp)),
                             !.parsed = Append(@, out.resp.Body)]
             d == parseSplunkSearchResults(out.resp.Body)
         IN  IF d.err # NoErr THEN Return(f1, NilMap, d.err)
             ELSE IF out.resp.StatusCode # StatusOK
             THEN Return(f1, d.result, Err("status", <<"search request failed">>))
             ELSE Return(f1, d.result, d.err)

\* Search from the return of HTTPClient.Do: a transport error is returned as
\* it is; a status other than 200 is an error naming resp.Status; else the
\* body goes to parseSplunkSearchResults.
SearchFinish(f, out) ==
    IF out.neterr
    THEN Return(f, NilMap, Err("transport", <<"Post: ", "network error">>))
    ELSE LET f1 == [f EXCEPT !.bodies = Append(@, 0), !.resps = Append(@, StatusOf(out.resp))]
         IN  IF out.resp.StatusCode # StatusOK
             THEN Return(f1, NilMap,
                         Err("status", <<"search request failed: ", out.resp.Status>>))
             ELSE LET d == parseSplunkSearchResults(out.resp.Body)
                  IN  Return([f1 EXCEPT !.parsed = Append(@, out.resp.Body)],
                             d.result, d.err)

\* -------------------------------------------------------------- SendEvents

\* the Event of a list: Time, and Event naming the map it holds; the map
\* named "chan" holds a channel, which encoding/json cannot encode.
Unserializable == "chan"
EventValues ==
    { [Time |-> 1, Event |-> "foo"],
      [Time |-> 2, Event |-> "baz"],
      [Time |-> 3, Event |-> Unserializable] }
IndexNames == { "main", "" }

\* json.Marshal(payload) of the map {"index", "time", "event"}.
Marshal(payload) ==
    IF payload.event = Unserializable
    THEN [body |-> [nil |-> TRUE],
          err |-> Err("json", <<"json: unsupported type: chan int">>)]
    ELSE [body |-> [index |-> payload.index, time |-> payload.time,
                    event |-> payload.event],
          err |-> NoErr]

\* hecURL of SendEvents: every trailing '/' of BaseURL trimmed, then the path.
HecURL(c) == TrimRightSlash(c.BaseURL) \o HecPath

\* A plausible slip: every pass of the loop encodes the first event of the
\* list.
SendLoopFirstEvent(c, f, i) ==
    IF i > Len(f.events) THEN Return([f EXCEPT !.i = i], NilMap, NoErr)
    ELSE LET m == Marshal([index |-> f.indexName, time |-> f.events[1].Time,
                           event |-> f.events[1].Event])
         IN  IF m.err # NoErr
             THEN Return([f EXCEPT !.i = i], NilMap,
                         Err("marshal", <<"failed to marshal event: ">> \o m.err.msg))
             ELSE LET nr == NewRequest(HecURL(c), m.body)
                  IN  IF nr.err # NoErr
                      THEN Return([f EXCEPT !.i = i], NilMap,
                                  Err("newrequest",
                                      <<"failed to create request: ">> \o nr.err.msg))
                      ELSE [f EXCEPT !.i = i, !.pc = "send_wait",
                               !.sent = Append(@, [nr.req EXCEPT
                                   !.auth = [scheme |-> "Splunk", cred |-> <<c.Token>>],
                                   !.contentType = "application/json",
                                   !.ev = i])]

\* the loop of SendEvents from event i up to its HTTPClient.Do: past the last
\* event the call returns nil; a Marshal or NewRequest error returns at once;
\* else the request for event i, with Authorization "Splunk "+Token, is
\* handed to the transport.
SendLoop(c, f, i) ==
    IF i > Len(f.events) THEN Return([f EXCEPT !.i = i], NilMap, NoErr)
    ELSE LET m == Marshal([index |-> f.indexName, time |-> f.events[i].Time,
                           event |-> f.events[i].Event])
         IN  IF m.err # NoErr
             THEN Return([f EXCEPT !.i = i], NilMap,
                         Err("marshal", <<"failed to marshal event: ">> \o m.err.msg))
             ELSE LET nr == NewRequest(HecURL(c), m.body)
                  IN  IF nr.err # NoErr
                      THEN Return([f EXCEPT !.i = i], NilMap,
                                  Err("newrequest",
                                      <<"failed to create request: ">> \o nr.err.msg))
                      ELSE [f EXCEPT !.i = i, !.pc = "send_wait",
                               !.sent = Append(@, [nr.req EXCEPT
                                   !.auth = [scheme |-> "Splunk", cred |-> <<c.Token>>],
                                   !.contentType = "application/json",
                                   !.ev = i])]

\* A plausible slip: the token test is the one of setAuthHeader, so a
\* username and password let the call through.
SendEventsStartAnyCredential(c, indexName, events) ==
    LET f0 == [IdleFrame EXCEPT !.op = "SendEvents", !.indexName = indexName,
                                !.events = events]
    IN  IF c.Token = "" /\ (c.Username = "" \/ c.Password = "")
        THEN Return(f0, NilMap, Err("token", <<"HEC requires a token for authentication">>))
        ELSE SendLoop(c, f0, 1)

\* SendEvents up to its first HTTPClient.Do: without a token it returns an
\* error before the loop.
SendEventsStart(c, indexName, events) ==
    LET f0 == [IdleFrame EXCEPT !.op = "SendEvents", !.indexName = indexName,
                                !.events = events]
    IN  IF c.Token = ""
        THEN Return(f0, NilMap, Err("token", <<"HEC requires a token for authentication">>))
        ELSE SendLoop(c, f0, 1)

\* A plausible slip: a failed event is sent once more before the call
\* gives up.
SendEventsFinishRetry(c, f, out) ==
    IF out.neterr \/ out.resp.StatusCode # StatusOK
    THEN IF Len(f.sent) >= 2 /\ f.sent[Len(f.sent) - 1].ev = f.i
         THEN Return(f, NilMap, Err("transport", <<"failed to send event: ">>))
         ELSE [f EXCEPT !.sent = Append(@, f.sent[Len(f.sent)])]
    ELSE SendLoop(c, [f EXCEPT !.bodies = Append(@, 0), !.resps = Append(@, StatusOf(out.resp))], f.i + 1)

\* A plausible slip: the body of a 200 response is closed at the end of its
\* pass of the loop, with the deferred close still in place.
SendEventsFinishCloseInLoop(c, f, out) ==
    IF out.neterr
    THEN Return(f, NilMap,
                Err("transport", <<"failed to send event: ", "Post: ", "network error">>))
    ELSE IF out.resp.StatusCode # StatusOK
    THEN Return([f EXCEPT !.bodies = Append(@, 0), !.resps = Append(@, StatusOf(out.resp))],
                NilMap,
                Err("status", <<"failed to send event: ", out.resp.Status,
                                " - ", out.resp.Body>>))
    ELSE SendLoop(c, [f EXCEPT !.bodies = Append(@, 1), !.resps = Append(@, StatusOf(out.resp))],
                  f.i + 1)

\* SendEvents from the return of HTTPClient.Do for event i: a transport error
\* or a status other than 200 returns an error; else the loop goes on with
\* event i+1.
SendEventsFinish(c, f, out) ==
    IF out.neterr
    THEN Return(f, NilMap,
                Err("transport", <<"failed to send event: ", "Post: ", "network error">>))
    ELSE LET f1 == [f EXCEPT !.bodies = Append(@, 0), !.resps = Append(@, StatusOf(out.resp))]
         IN  IF out.resp.StatusCode # StatusOK
             THEN Return(f1, NilMap,
                         Err("status", <<"failed to send event: ", out.resp.Status,
                                         " - ", out.resp.Body>>))
             ELSE SendLoop(c, f1, f.i + 1)

\* ----------------------------------------------------------------- actions

\* sequences over S of length at most n
SeqsUpTo(S, n) == UNION { [1..k -> S] : k \in 0..n }

Queries ==
    { <<"q">>, <<"a","=","b">>, <<"a","&","b">> }

\* option strings: the three recognized keys, each with two different
\* values (one of them empty, one holding a '='), one string with no '=' and
\* one with an unrecognized key
OptionStrings ==
    { KV(KeyExecMode, ValBlocking), KV(KeyExecMode, <<"o","n","e","s","h","o","t">>),
      KV(KeyEarliestTime, <<"1">>), KV(KeyEarliestTime, <<>>),
      KV(KeyLatestTime, <<"2">>), KV(KeyLatestTime, <<"a","=","b">>),
      <<"i","n","v","a","l","i","d","o","p","t","i","o","n">>,
      KV(<<"f","o","o">>, <<"b","a","r">>) }

\* Two callers on one client take their inputs and responses from smaller
\* sets: one query, two option strings (one recognized, one ignored), lists
\* one shorter, one index name, an event that encodes and one that does not,
\* and a transport that fails or answers 200, 201 or 400.
Callers == {1, 2}
Concurrent == Cardinality(procs) > 1
CallBaseURLs == IF Concurrent THEN { <<"h">> } ELSE BaseURLs
CallQueries == IF Concurrent THEN { <<"q">> } ELSE Queries
CallOptionLists ==
    IF Concurrent
    THEN SeqsUpTo({ KV(KeyExecMode, ValBlocking),
                    <<"i","n","v","a","l","i","d","o","p","t","i","o","n">> },
                  MaxOpts - 1)
    ELSE SeqsUpTo(OptionStrings, MaxOpts)
CallIndexNames == IF Concurrent THEN { "main" } ELSE IndexNames
CallEventLists ==
    IF Concurrent
    THEN SeqsUpTo({ e \in EventValues : e.Time # 2 }, MaxEvents - 1)
    ELSE SeqsUpTo(EventValues, MaxEvents)
CallOutcomes ==
    IF Concurrent
    THEN { o \in Outcomes : o.neterr \/ o.resp.Body \in { "{}", "bad request" } }
    ELSE Outcomes

\* A plausible slip: a call clears the token it has used.
ReceiverAfterTokenCleared(c) == [c EXCEPT !.Token = ""]

\* Search and SendEvents have the receiver c *Client and assign to none of
\* its fields: the client after a step of a call is the client before it.
ReceiverAfter(c) == c

\* A plausible slip: the requests of a call kept in a package-level slice
\* that every caller appends to.
LocalsSharedRequests(fr, p, f) ==
    [q \in DOMAIN fr |-> IF q = p THEN f ELSE [fr[q] EXCEPT !.sent = f.sent]]

\* The variables of Search and SendEvents (body, req, resp, the loop
\* position, the results) are locals of the call: a step of caller p writes
\* the frame of p only.
Locals(fr, p, f) == [fr EXCEPT ![p] = f]

Init ==
    /\ procs = {1}
    /\ origin = "none"
    /\ args = NoArgs
    /\ client = NoClient
    /\ newErr = NoErr
    /\ frame = [p \in procs |-> IdleFrame]

\* client, err := NewClient(baseURL, username, password, token)
NewClientCall ==
    /\ origin = "none"
    /\ \E b \in CallBaseURLs, u \in Usernames, pw \in Passwords, t \in Tokens :
          LET r == NewClient(b, u, pw, t)
          IN  /\ args' = [baseURL |-> b, username |-> u, password |-> pw, token |-> t]
              /\ client' = r.client
              /\ newErr' = r.err
    /\ origin' = "NewClient"
    /\ UNCHANGED <<procs, frame>>

\* client := &Client{BaseURL: ..., Username: ..., Password: ..., Token: ...}:
\* the fields are exported and a caller may fill them itself.
ClientLiteral ==
    /\ origin = "none"
    /\ \E b \in CallBaseURLs, u \in Usernames, pw \in Passwords, t \in Tokens :
          /\ args' = [baseURL |-> b, username |-> u, password |-> pw, token |-> t]
          /\ client' = [BaseURL |-> b, Username |-> u, Password |-> pw, Token |-> t]
    /\ newErr' = NoErr
    /\ origin' = "literal"
    /\ UNCHANGED <<procs, frame>>

CanCall(p) == client # NoClient /\ frame[p].pc = "idle"

\* c.Search(query, options...) up to the request being handed to the transport
SearchCall(p) ==
    /\ CanCall(p)
    /\ \E q \in CallQueries, opts \in CallOptionLists :
          frame' = Locals(frame, p, SearchStart(client, q, opts))
    /\ client' = ReceiverAfter(client)
    /\ UNCHANGED <<procs, origin, args, newErr>>

\* the transport answers the search request and Search returns
SearchRespond(p) ==
    /\ frame[p].pc = "search_wait"
    /\ \E out \in CallOutcomes :
          frame' = Locals(frame, p, SearchFinish(frame[p], out))
    /\ client' = ReceiverAfter(client)
    /\ UNCHANGED <<procs, origin, args, newErr>>

\* c.SendEvents(indexName, events) up to the first request being handed to
\* the transport
SendEventsCall(p) ==
    /\ CanCall(p)
    /\ \E ix \in CallIndexNames, evs \in CallEventLists :
          frame' = Locals(frame, p, SendEventsStart(client, ix, evs))
    /\ client' = ReceiverAfter(client)
    /\ UNCHANGED <<procs, origin, args, newErr>>

\* the transport answers the request for the current event; SendEvents
\* returns or hands over the next request
SendEventsRespond(p) ==
    /\ frame[p].pc = "send_wait"
    /\ \E out \in CallOutcomes :
          frame' = Locals(frame, p, SendEventsFinish(client, frame[p], out))
    /\ client' = ReceiverAfter(client)
    /\ UNCHANGED <<procs, origin, args, newErr>>

\* the caller has looked at what the call returned and is free to call again
ResultTaken(p) ==
    /\ frame[p].pc = "returned"
    /\ frame' = Locals(frame, p, IdleFrame)
    /\ UNCHANGED <<procs, origin, args, client, newErr>>

Next ==
    \/ ClientLiteral
    \/ NewClientCall
    \/ \E p \in procs : SearchCall(p)
    \/ \E p \in procs : SearchRespond(p)
    \/ \E p \in procs : SendEventsCall(p)
    \/ \E p \in procs : SendEventsRespond(p)
    \/ \E p \in procs : ResultTaken(p)

Spec == Init /\ [][Next]_vars

\* two goroutines calling Search and SendEvents on the same *Client
InitConc ==
    /\ procs = Callers
    /\ origin = "none"
    /\ args = NoArgs
    /\ client = NoClient
    /\ newErr = NoErr
    /\ frame = [p \in procs |-> IdleFrame]

SpecConc == InitConc /\ [][Next]_vars

\* ================================================================== claims

\* the credential triple NewClient refuses
Refused(a) == a.token = "" /\ (a.username = "" \/ a.password = "")

\* the frames of calls that have started
SearchFrames     == { p \in procs : frame[p].op = "Search" }
SendEventsFrames == { p \in procs : frame[p].op = "SendEvents" }

\* C1: NewClient returns an error and no client exactly when token is empty
\* and username or password is empty; for every other combination of the
\* three credential strings it returns a client and no error.
C1_NewClientRefusesExactly ==
    origin = "NewClient" =>
        /\ Refused(args) => (client = NoClient /\ newErr # NoErr)
        /\ ~Refused(args) => (client # NoClient /\ newErr = NoErr)

\* NewClient has refused a username given without a password.
C1_Witness ==
    /\ origin = "NewClient"
    /\ args.username # "" /\ args.password = "" /\ args.token = ""
    /\ client = NoClient /\ newErr.kind = "config"

\* C2: when NewClient succeeds, the client holds all four inputs verbatim:
\* BaseURL = baseURL, Username = username, Password = password and
\* Token = token.
C2_StoresAllFourVerbatim ==
    (origin = "NewClient" /\ client # NoClient) =>
        /\ client.BaseURL = args.baseURL
        /\ client.Username = args.username
        /\ client.Password = args.password
        /\ client.Token = args.token

\* C3: no authentication error at request time on a client NewClient
\* accepted: Search on it never returns "no authentication credentials
\* provided", and a request it has built carries an authorization.
C3_NoAuthErrorAfterNewClient ==
    \A p \in SearchFrames :
        (origin = "NewClient" /\ frame[p].pc = "returned") =>
            frame[p].err.kind # "auth"

\* C4: whenever the client's token is not empty, whatever its username and
\* password, every request Search sent carries Authorization "Bearer "+token,
\* every request SendEvents sent carries Authorization "Splunk "+token, and
\* none carries basic authentication.
C4_TokenAlwaysWins ==
    \A p \in procs :
        (client # NoClient /\ client.Token # "") =>
            \A k \in DOMAIN frame[p].sent :
                LET a == frame[p].sent[k].auth
                IN  /\ a.scheme # "Basic"
                    /\ frame[p].op = "Search" =>
                           a = [scheme |-> "Bearer", cred |-> <<client.Token>>]
                    /\ frame[p].op = "SendEvents" =>
                           a = [scheme |-> "Splunk", cred |-> <<client.Token>>]

\* Search has sent a request on a client that holds a token and a username
\* and a password.
C4_Witness ==
    \E p \in SearchFrames :
        /\ client.Token # "" /\ client.Username # "" /\ client.Password # ""
        /\ Len(frame[p].sent) = 1
        /\ frame[p].sent[1].auth.scheme = "Bearer"

\* C5 as claimed: when the token is empty and the username or the password is
\* empty, Search returns an authentication error and issues no request; basic
\* authentication is attached only when the token is empty and username and
\* password are both set.
C5_AuthErrorWheneverNoCredentials ==
    \A p \in SearchFrames :
        /\ (client.Token = "" /\ (client.Username = "" \/ client.Password = "")) =>
               /\ frame[p].pc = "returned"
               /\ frame[p].err.kind = "auth"
               /\ frame[p].sent = <<>>
        /\ \A k \in DOMAIN frame[p].sent :
               frame[p].sent[k].auth.scheme = "Basic" =>
                   (client.Token = "" /\ client.Username # "" /\ client.Password # "")

\* C5 as amended: in that case Search returns an error and no mapping and
\* issues no request, and the error is the authentication error whenever
\* http.NewRequest accepted the search URL (it parses the URL before
\* setAuthHeader runs, and its error is returned first); basic
\* authentication is attached only when the token is empty and username and
\* password are both set.
C5_NoCredentialsNoRequest ==
    \A p \in SearchFrames :
        /\ (client.Token = "" /\ (client.Username = "" \/ client.Password = "")) =>
               /\ frame[p].pc = "returned"
               /\ frame[p].err # NoErr
               /\ frame[p].result = NilMap
               /\ frame[p].sent = <<>>
               /\ URLParses(SearchURL(client)) => frame[p].err.kind = "auth"
               /\ ~URLParses(SearchURL(client)) => frame[p].err.kind = "newrequest"
        /\ \A k \in DOMAIN frame[p].sent :
               frame[p].sent[k].auth.scheme = "Basic" =>
                   (client.Token = "" /\ client.Username # "" /\ client.Password # "")

\* Search has returned the authentication error on a client with a username
\* and neither password nor token.
C5_Witness ==
    \E p \in SearchFrames :
        /\ client.Token = "" /\ client.Username # "" /\ client.Password = ""
        /\ frame[p].pc = "returned"
        /\ frame[p].err.kind = "auth"
        /\ frame[p].sent = <<>>

\* the client holds a credential setAuthHeader accepts
CredsUsable(c) == c.Token # "" \/ (c.Username # "" /\ c.Password # "")

\* "&exec_mode=normal&output_mode=json"
DefaultTail ==
    <<"&","e","x","e","c","_","m","o","d","e","=","n","o","r","m","a","l",
      "&","o","u","t","p","u","t","_","m","o","d","e","=","j","s","o","n">>

\* C6: for every query q, Search(q) with no options sends a POST to the
\* search-job endpoint whose body holds search=q, exec_mode=normal and
\* output_mode=json and no earliest_time or latest_time field: the body is
\* "search=" q "&exec_mode=normal&output_mode=json" and nothing more.  (A
\* request is sent when the client holds a usable credential and the URL
\* parses.)
C6_NoOptionsBody ==
    \A p \in SearchFrames :
        frame[p].options = <<>> =>
            /\ (CredsUsable(client) /\ URLParses(SearchURL(client))) =>
                   Len(frame[p].sent) = 1
            /\ \A k \in DOMAIN frame[p].sent :
                   LET r == frame[p].sent[k]
                   IN  /\ r.method = "POST"
                       /\ r.url = client.BaseURL \o SearchPath
                       /\ r.contentType = "application/x-www-form-urlencoded"
                       /\ r.body = <<"s","e","a","r","c","h","=">>
                                   \o frame[p].query \o DefaultTail

\* Search with no options has sent its request for a query that holds '&'.
C6_Witness ==
    \E p \in SearchFrames :
        /\ frame[p].options = <<>>
        /\ frame[p].query = <<"a","&","b">>
        /\ Len(frame[p].sent) = 1

\* the option opt reads key=...
HasKey(opt, key) ==
    Len(opt) > Len(key) /\ SubSeq(opt, 1, Len(key) + 1) = key \o <<"=">>
\* ... and this is its value
ValueOf(opt, key) == SubSeq(opt, Len(key) + 2, Len(opt))

RecognizedKeys == { KeyExecMode, KeyEarliestTime, KeyLatestTime }

\* an option with no '=' or with a key Search does not know
Ignored(opt) == \A key \in RecognizedKeys : ~HasKey(opt, key)

\* the value of the last option of the list that gives key; dflt if none does
LastValue(options, key, dflt) ==
    LET at == { k \in DOMAIN options : HasKey(options[k], key) }
    IN  IF at = {} THEN dflt
        ELSE ValueOf(options[CHOOSE k \in at : \A j \in at : j <= k], key)

\* the option list without its k-th element
Without(options, k) ==
    [j \in 1..(Len(options) - 1) |-> IF j < k THEN options[j] ELSE options[j + 1]]

\* the body the amended C7 describes
ExpectedBody(query, options) ==
    LET em == LastValue(options, KeyExecMode, ValNormal)
        et == LastValue(options, KeyEarliestTime, <<>>)
        lt == LastValue(options, KeyLatestTime, <<>>)
    IN  <<"s","e","a","r","c","h","=">> \o query
        \o <<"&","e","x","e","c","_","m","o","d","e","=">> \o em
        \o <<"&","o","u","t","p","u","t","_","m","o","d","e","=","j","s","o","n">>
        \o (IF et = <<>> THEN <<>>
            ELSE <<"&","e","a","r","l","i","e","s","t","_","t","i","m","e","=">> \o et)
        \o (IF lt = <<>> THEN <<>>
            ELSE <<"&","l","a","t","e","s","t","_","t","i","m","e","=">> \o lt)

\* an ignored option changes nothing: the request is the one Search builds
\* from the list without it, and so is a failure before the request
IgnoredOptionsChangeNothing(p) ==
    \A k \in DOMAIN frame[p].options :
        Ignored(frame[p].options[k]) =>
            LET g == SearchStart(client, frame[p].query,
                                 Without(frame[p].options, k))
            IN  /\ (frame[p].sent = <<>>) <=> (g.sent = <<>>)
                /\ frame[p].sent = <<>> => frame[p].err = g.err
                /\ \A j \in DOMAIN frame[p].sent :
                       frame[p].sent[j].body = g.sent[j].body

\* the option gives a recognized key a value that is not empty
GivesValue(opt) ==
    \E key \in RecognizedKeys : HasKey(opt, key) /\ ValueOf(opt, key) # <<>>

\* C7 as claimed: for every option list, each exec_mode, earliest_time and
\* latest_time option given as key=value (here: with a value that is not
\* empty) appears in the request body with that value; an option with no
\* '=' or an unrecognized key causes no error and leaves the body as it is
\* without that option.
C7_EveryGivenOptionInBody ==
    \A p \in SearchFrames :
        /\ \A j \in DOMAIN frame[p].sent, k \in DOMAIN frame[p].options :
               GivesValue(frame[p].options[k]) =>
                   Contains(frame[p].sent[j].body, frame[p].options[k])
        /\ IgnoredOptionsChangeNothing(p)

\* C7 as amended: for each of exec_mode, earliest_time and latest_time the
\* body holds the value of the LAST option of the list that gives the key
\* (an earlier one is overwritten), exec_mode=normal when none gives
\* exec_mode, and no earliest_time / latest_time field when no option gives
\* the key or the last one gives it the empty value; an option with no '='
\* or an unrecognized key causes no error and leaves the body as it is
\* without that option.
C7_LastGivenOptionInBody ==
    \A p \in SearchFrames :
        /\ \A j \in DOMAIN frame[p].sent :
               frame[p].sent[j].body = ExpectedBody(frame[p].query, frame[p].options)
        /\ IgnoredOptionsChangeNothing(p)

\* Search has sent a request for an option list that gives exec_mode twice.
C7_Witness ==
    \E p \in SearchFrames :
        /\ Len(frame[p].sent) = 1
        /\ Len(frame[p].options) = 2
        /\ HasKey(frame[p].options[1], KeyExecMode)
        /\ HasKey(frame[p].options[2], KeyExecMode)
        /\ frame[p].options[1] # frame[p].options[2]
        /\ Contains(frame[p].sent[1].body, frame[p].options[2])
        /\ ~Contains(frame[p].sent[1].body, frame[p].options[1])

\* C8: for every response to Search whose status is not 200, Search returns
\* an error that holds the response's status text and returns no mapping,
\* and the response body is never handed to the JSON parser.
C8_NonOKStatusIsAnError ==
    \A p \in SearchFrames :
        (Len(frame[p].resps) = 1 /\ frame[p].resps[1].StatusCode # 200) =>
            /\ frame[p].pc = "returned"
            /\ frame[p].err # NoErr
            /\ \E j \in DOMAIN frame[p].err.msg :
                   frame[p].err.msg[j] = frame[p].resps[1].Status
            /\ frame[p].result = NilMap
            /\ frame[p].parsed = <<>>

\* Search has returned on a 201 response.
C8_Witness ==
    \E p \in SearchFrames :
        /\ frame[p].pc = "returned"
        /\ Len(frame[p].resps) = 1
        /\ frame[p].resps[1].StatusCode = 201
        /\ frame[p].err.kind = "status"

\* C9: when the client's token is empty, SendEvents returns an error and
\* issues no request, for every index name and every event list, also when
\* username and password are both set.
C9_SendEventsNeedsToken ==
    \A p \in SendEventsFrames :
        client.Token = "" =>
            /\ frame[p].pc = "returned"
            /\ frame[p].err # NoErr
            /\ frame[p].sent = <<>>
            /\ frame[p].resps = <<>>

\* SendEvents has refused a non-empty event list on a client that holds a
\* username and a password and no token.
C9_Witness ==
    \E p \in SendEventsFrames :
        /\ client.Token = "" /\ client.Username # "" /\ client.Password # ""
        /\ Len(frame[p].events) > 0
        /\ frame[p].pc = "returned"
        /\ frame[p].err.kind = "token"

\* the number of requests SendEvents has handed to the transport for event e
SentFor(p, e) ==
    Cardinality({ k \in DOMAIN frame[p].sent : frame[p].sent[k].ev = e })

\* event e of the call cannot be serialized
FailsToSerialize(p, e) == frame[p].events[e].Event = Unserializable

\* the call of p has returned an error raised at event n
FailedAt(p, n) ==
    /\ frame[p].pc = "returned"
    /\ frame[p].err # NoErr
    /\ frame[p].i = n

\* C10, in every state of a SendEvents call with a token set: requests go out
\* one per event in list order, and while the request for event i is with
\* the transport there is exactly one request for each of events 1..i and
\* none for a later one; when the call has returned an error at event N,
\* events 1..N-1 each got a 200 response to their one request, event N has
\* at most one request (none when it failed to serialize, one when the
\* transport failed or answered another status than 200) and events N+1..K
\* have none.
C10_SequentialState ==
    \A p \in SendEventsFrames :
        client.Token # "" =>
            LET f == frame[p]
                K == Len(f.events)
            IN  /\ \A k \in DOMAIN f.sent : f.sent[k].ev = k
                /\ f.pc = "send_wait" =>
                       /\ f.i \in 1..K
                       /\ Len(f.sent) = f.i
                       /\ Len(f.resps) = f.i - 1
                /\ \A k \in DOMAIN f.resps :
                       (k < Len(f.sent) \/ f.err = NoErr) => f.resps[k].StatusCode = 200
                /\ (f.pc = "returned" /\ f.err # NoErr) =>
                       /\ f.i \in 1..K
                       /\ \A e \in 1..(f.i - 1) :
                              SentFor(p, e) = 1 /\ ~FailsToSerialize(p, e)
                       /\ SentFor(p, f.i) <= 1
                       /\ SentFor(p, f.i) = 0 <=>
                              (f.err.kind = "marshal" \/ f.err.kind = "newrequest")
                       /\ f.err.kind = "marshal" <=> FailsToSerialize(p, f.i)
                       /\ f.err.kind = "status" <=>
                              (Len(f.resps) = f.i /\ f.resps[f.i].StatusCode # 200)
                       /\ f.err.kind = "transport" <=>
                              (SentFor(p, f.i) = 1 /\ Len(f.resps) = f.i - 1)
                       /\ \A e \in (f.i + 1)..K : SentFor(p, e) = 0

\* C10, step by step: a failure of the current event ends the call in that
\* very step, with an error and without another request; and once the call
\* has returned, no request is added to it (nothing is retried) and none is
\* taken back (nothing is rolled back) until the caller has taken the result.
C10_SequentialStep ==
    \A p \in procs :
        /\ (frame[p].op = "SendEvents" /\ frame[p].pc = "send_wait"
            /\ frame'[p] # frame[p]) =>
               \/ /\ frame'[p].pc = "send_wait"
                  /\ frame'[p].i = frame[p].i + 1
                  /\ Len(frame'[p].sent) = Len(frame[p].sent) + 1
                  /\ SubSeq(frame'[p].sent, 1, Len(frame[p].sent)) = frame[p].sent
                  /\ frame'[p].resps[frame[p].i].StatusCode = 200
               \/ /\ frame'[p].pc = "returned"
                  /\ frame'[p].sent = frame[p].sent
                  /\ frame'[p].err = NoErr <=>
                         (/\ frame[p].i = Len(frame[p].events)
                          /\ Len(frame'[p].resps) = frame[p].i
                          /\ frame'[p].resps[frame[p].i].StatusCode = 200)
        /\ (frame[p].op = "SendEvents" /\ frame[p].pc = "returned") =>
               (frame'[p] = frame[p] \/ frame'[p] = IdleFrame)

\* C10: in SendEvents over events 1..K with a token set, if event N is the
\* first to fail (serialization failure, transport error or non-200 status)
\* the call returns an error at that point, each of events 1..N-1 has had
\* exactly one request sent, event N at most one, and no request is ever
\* sent for events N+1..K; nothing is retried or rolled back.
C10_FirstFailureEndsTheCall ==
    [] C10_SequentialState /\ [][C10_SequentialStep]_vars

\* SendEvents has returned an error at the second of three events, after a
\* non-200 answer to its request.
C10_Witness ==
    \E p \in SendEventsFrames :
        /\ client.Token # ""
        /\ Len(frame[p].events) = 3
        /\ FailedAt(p, 2)
        /\ frame[p].err.kind = "status"
        /\ Len(frame[p].sent) = 2

\* every response the call has received is a 200, and every request it has
\* sent has been answered
AllAnswered200(f) ==
    /\ Len(f.resps) = Len(f.sent)
    /\ \A k \in DOMAIN f.resps : f.resps[k].StatusCode = 200

\* the requests of the call are one POST per event of the list, in list
\* order, each with the index name of the call and the time and event of
\* its event
OnePostPerEvent(f) ==
    /\ Len(f.sent) = Len(f.events)
    /\ \A k \in DOMAIN f.sent :
           /\ f.sent[k].method = "POST"
           /\ f.sent[k].contentType = "application/json"
           /\ f.sent[k].body = [index |-> f.indexName,
                                time |-> f.events[k].Time,
                                event |-> f.events[k].Event]

\* C11 as claimed: when the token is set and every request gets a 200
\* response, SendEvents returns no error after exactly len(events) POST
\* requests (none for an empty list), one per event in input order, the i-th
\* with the given index name and the time and event of the i-th event.
C11_AllDeliveredWhenAll200 ==
    \A p \in SendEventsFrames :
        (client.Token # "" /\ frame[p].pc = "returned" /\ AllAnswered200(frame[p])) =>
            /\ frame[p].err = NoErr
            /\ OnePostPerEvent(frame[p])

\* C11 as amended: the same, for a list whose events all serialize to JSON
\* and a BaseURL http.NewRequest accepts; an event that json.Marshal refuses,
\* or a collector URL that does not parse, ends the call with an error
\* before that event's request, although every request sent got a 200.
C11_AllDeliveredWhenAllSerializeAnd200 ==
    \A p \in SendEventsFrames :
        (/\ client.Token # ""
         /\ frame[p].pc = "returned"
         /\ AllAnswered200(frame[p])
         /\ URLParses(HecURL(client))
         /\ \A e \in DOMAIN frame[p].events :
                frame[p].events[e].Event # Unserializable) =>
            /\ frame[p].err = NoErr
            /\ OnePostPerEvent(frame[p])

\* SendEvents has returned nil after three events, each answered 200.
C11_Witness ==
    \E p \in SendEventsFrames :
        /\ client.Token # ""
        /\ frame[p].pc = "returned"
        /\ frame[p].err = NoErr
        /\ Len(frame[p].events) = 3
        /\ frame[p].events[1] # frame[p].events[2]
        /\ Len(frame[p].sent) = 3
        /\ AllAnswered200(frame[p])

\* the calls of Search that have returned after a 200 response, and the body
\* of that response
SearchGot200(p) ==
    /\ frame[p].op = "Search"
    /\ frame[p].pc = "returned"
    /\ Len(frame[p].resps) = 1
    /\ frame[p].resps[1].StatusCode = 200
BodyGot(p) == frame[p].parsed[1]

\* the bodies that are a JSON document, and those that do not even start
\* with a complete JSON value
ValidJSON == ObjectBodies \cup { "null", "[1]" }
NoJSONValue == { "not json", "{\"results\":", "" }

\* C12 as claimed: on a 200 response whose body is not valid JSON (empty and
\* truncated bodies included) Search returns a decode error and no mapping;
\* on a body that is a JSON object it returns that object's mapping and no
\* error.
C12_InvalidJSONIsADecodeError ==
    \A p \in procs :
        SearchGot200(p) =>
            /\ BodyGot(p) \notin ValidJSON =>
                   (frame[p].err.kind = "decode" /\ frame[p].result = NilMap)
            /\ BodyGot(p) \in ObjectBodies =>
                   (frame[p].err = NoErr /\ frame[p].result = MapOf(BodyGot(p)))

\* C12 as amended: on a 200 response whose body does not start with a
\* complete JSON value (empty and truncated bodies included) Search returns
\* a decode error and no mapping; on a body that is, or starts with, a JSON
\* object it returns that object's mapping and no error, whatever follows
\* the object.
C12_NoJSONValueIsADecodeError ==
    \A p \in procs :
        SearchGot200(p) =>
            /\ BodyGot(p) \in NoJSONValue =>
                   (frame[p].err.kind = "decode" /\ frame[p].result = NilMap)
            /\ FirstJSONValue(BodyGot(p)) \in ObjectBodies =>
                   (/\ frame[p].err = NoErr
                    /\ frame[p].result = MapOf(FirstJSONValue(BodyGot(p))))

\* Search has returned a decode error for an empty body.
C12_Witness ==
    \E p \in procs :
        /\ SearchGot200(p)
        /\ BodyGot(p) = ""
        /\ frame[p].err.kind = "decode"
        /\ frame[p].result = NilMap

\* C13: when SendEvents fails on event N of a list of several events, the
\* error it returns identifies that event: two calls given the same list
\* that failed at different events of it return errors the caller can tell
\* apart.
C13_ErrorIdentifiesTheEvent ==
    \A p \in SendEventsFrames, q \in SendEventsFrames :
        \A n \in 1..Len(frame[p].events), m \in 1..Len(frame[q].events) :
            (/\ Len(frame[p].events) > 1
             /\ frame[p].events = frame[q].events
             /\ FailedAt(p, n)
             /\ FailedAt(q, m)
             /\ n # m) =>
                frame[p].err # frame[q].err

\* the pairs of an application/x-www-form-urlencoded body, as a server
\* decodes it: the body is cut at every '&', each piece at its first '='
RECURSIVE FormPairs(_)
FormPairs(body) ==
    LET a == IndexOf(body, "&")
        piece == IF a = 0 THEN body ELSE SubSeq(body, 1, a - 1)
        e == IndexOf(piece, "=")
        pair == IF e = 0 THEN [key |-> piece, value |-> <<>>]
                ELSE [key |-> SubSeq(piece, 1, e - 1),
                      value |-> SubSeq(piece, e + 1, Len(piece))]
    IN  IF a = 0 THEN <<pair>>
        ELSE <<pair>> \o FormPairs(SubSeq(body, a + 1, Len(body)))

\* the values a decoded body has for a key, in body order
FormValues(body, key) ==
    LET ps == FormPairs(body)
        RECURSIVE vals(_)
        vals(k) == IF k > Len(ps) THEN <<>>
                   ELSE IF ps[k].key = key THEN <<ps[k].value>> \o vals(k + 1)
                   ELSE vals(k + 1)
    IN  vals(1)

\* C14: the body of a search request is a form encoding of exactly the
\* intended fields: decoded as application/x-www-form-urlencoded it has one
\* search equal to the query (also for a query holding '&' or '='), one
\* exec_mode equal to the default or the override, one output_mode equal to
\* json, and no field that is not a parameter of Search.
C14_BodyDecodesToIntendedFields ==
    \A p \in SearchFrames :
        \A k \in DOMAIN frame[p].sent :
            LET body == frame[p].sent[k].body
            IN  /\ FormValues(body, KeySearch) = <<frame[p].query>>
                /\ FormValues(body, KeyExecMode) =
                       <<LastValue(frame[p].options, KeyExecMode, ValNormal)>>
                /\ FormValues(body, KeyOutputMode) = <<ValJson>>
                /\ \A n \in DOMAIN FormPairs(body) :
                       FormPairs(body)[n].key \in
                           RecognizedKeys \cup { KeySearch, KeyOutputMode }

\* the client as its construction left it: the fields of the literal, or
\* what NewClient returned for its arguments
ConstructedClient ==
    IF origin = "literal"
    THEN [BaseURL |-> args.baseURL, Username |-> args.username,
          Password |-> args.password, Token |-> args.token]
    ELSE NewClient(args.baseURL, args.username, args.password, args.token).client

\* C15: Search and SendEvents never modify the client: in every state after
\* construction, whatever calls have been made, are under way or have
\* returned (with success, an authentication error, a transport error, a
\* status other than 200, a serialization or a decode error), BaseURL,
\* Username, Password and Token are those of the construction.
C15_ClientNeverModified ==
    origin # "none" => client = ConstructedClient

\* A SendEvents call has delivered one event and failed to serialize the
\* next, on a client whose four fields are set, and the client is as
\* constructed.
C15_Witness ==
    \E p \in SendEventsFrames :
        /\ frame[p].pc = "returned"
        /\ frame[p].err.kind = "marshal"
        /\ Len(frame[p].sent) > 0
        /\ client.Token # "" /\ client.Password # "" /\ client.Username # ""
        /\ client = ConstructedClient

\* a SendEvents call that is the only one on the client, from frame f on,
\* with the transport giving the outcomes outs in turn
RECURSIVE SendEventsAlone(_, _, _)
SendEventsAlone(c, f, outs) ==
    IF outs = <<>> \/ f.pc # "send_wait" THEN f
    ELSE SendEventsAlone(c, SendEventsFinish(c, f, Head(outs)), Tail(outs))

\* every frame the call of f (its operation and arguments) can be in when it
\* is the only call on client c: before or after any of the responses the
\* transport can give it
AloneFrames(c, f) ==
    IF f.op = "Search"
    THEN LET s0 == SearchStart(c, f.query, f.options)
         IN  {s0} \cup (IF s0.pc = "search_wait"
                        THEN { SearchFinish(s0, o) : o \in CallOutcomes }
                        ELSE {})
    ELSE IF f.op = "SendEvents"
    THEN { SendEventsAlone(c, SendEventsStart(c, f.indexName, f.events), outs) :
               outs \in SeqsUpTo(CallOutcomes, Len(f.events)) }
    ELSE { IdleFrame }

\* the requests, the responses read, the results and the position of each
\* caller are those of its call running alone with the responses it got
C16_EachAsAlone ==
    \A p \in procs : frame[p] \in AloneFrames(client, frame[p])

\* a step of one caller leaves the other caller's call as it was, and
\* leaves the client as it was
C16_StepOfOne ==
    /\ \A p \in procs, q \in procs :
           (p # q /\ frame'[p] # frame[p]) => frame'[q] = frame[q]
    /\ (origin # "none") => client' = client

\* C16: with two callers running Search or SendEvents on one client, under
\* every interleaving each caller's requests (count, order, headers,
\* payloads) and returned result are those of the same call running alone
\* against the same responses; no step of one caller changes anything of the
\* other's call or of the client.
C16_ConcurrentCallsAsAlone ==
    [] C16_EachAsAlone /\ [][C16_StepOfOne]_vars

\* Both callers are inside a call at once: one has its second event with
\* the transport, the other has a search request with the transport.
C16_Witness ==
    /\ Concurrent
    /\ \E p \in procs, q \in procs :
           /\ p # q
           /\ frame[p].op = "SendEvents" /\ frame[p].pc = "send_wait"
           /\ Len(frame[p].sent) = 2
           /\ frame[q].op = "Search" /\ frame[q].pc = "search_wait"
           /\ frame[p] \in AloneFrames(client, frame[p])
           /\ frame[q] \in AloneFrames(client, frame[q])

\* s without its trailing '/' characters: the prefix of s that does not end
\* in '/' and is followed by nothing but '/'
WithoutTrailingSlashes(s) ==
    LET k == CHOOSE k \in 0..Len(s) :
                 /\ (k = 0 \/ s[k] # "/")
                 /\ \A j \in (k + 1)..Len(s) : s[j] = "/"
    IN  SubSeq(s, 1, k)

EndsInSlash(s) == Len(s) > 0 /\ s[Len(s)] = "/"

\* C17: the two endpoints treat BaseURL differently: every request of
\* SendEvents goes to BaseURL without all of its trailing '/' followed by
\* "/services/collector/event", the same target whatever the number of
\* trailing slashes; every request of Search goes to BaseURL as it is
\* followed by "/services/search/jobs", so a BaseURL ending in '/' gives a
\* URL containing "//services/search/jobs".
C17_BaseURLPerEndpoint ==
    \A p \in procs :
        \A k \in DOMAIN frame[p].sent :
            LET url == frame[p].sent[k].url
            IN  /\ frame[p].op = "SendEvents" =>
                       /\ url = WithoutTrailingSlashes(client.BaseURL) \o HecPath
                       /\ ~Contains(url, <<"/">> \o HecPath)
                /\ frame[p].op = "Search" =>
                       /\ url = client.BaseURL \o SearchPath
                       /\ EndsInSlash(client.BaseURL) =>
                              Contains(url, <<"/">> \o SearchPath)

\* SendEvents has sent a request for a client whose BaseURL ends in two
\* slashes, to the target a BaseURL with no trailing slash gives.
C17_Witness ==
    \E p \in SendEventsFrames :
        /\ client.BaseURL = <<"h", "/", "/">>
        /\ Len(frame[p].sent) > 0
        /\ frame[p].sent[1].url = <<"h">> \o HecPath

\* C18: every response body SendEvents receives is closed exactly once, and
\* none before the call returns: there is one body per response received;
\* while the request for event i is with the transport the i-1 bodies
\* received so far are all open; once the call has returned, on any path,
\* every body received has been closed once.
C18_BodiesClosedOnceAtReturn ==
    \A p \in SendEventsFrames :
        /\ Len(frame[p].bodies) = Len(frame[p].resps)
        /\ frame[p].pc = "send_wait" =>
               /\ Len(frame[p].bodies) = frame[p].i - 1
               /\ \A k \in DOMAIN frame[p].bodies : frame[p].bodies[k] = 0
        /\ frame[p].pc = "returned" =>
               \A k \in DOMAIN frame[p].bodies : frame[p].bodies[k] = 1

\* The request for the third event is with the transport and the bodies of
\* the first two responses are still open.
C18_Witness ==
    \E p \in SendEventsFrames :
        /\ frame[p].pc = "send_wait"
        /\ frame[p].i = 3
        /\ frame[p].bodies = <<0, 0>>

\* C19: whenever Search returns no error it returns a non-nil mapping: for
\* every body of a 200 response either the body decodes to a JSON object and
\* that mapping is returned, or an error is returned; a body holding null or
\* another JSON value that is not an object never gives a nil mapping with a
\* nil error.
C19_NoErrorMeansAMapping ==
    \A p \in SearchFrames :
        (frame[p].pc = "returned" /\ frame[p].err = NoErr) =>
            /\ frame[p].result # NilMap
            /\ SearchGot200(p)
            /\ frame[p].result = MapOf(FirstJSONValue(BodyGot(p)))

====
